---- MODULE Spec2Model ----
(***************************************************************************)
(* Model of traffic_api/main.py: the four request handlers of the traffic  *)
(* API (sensors_in_view, sensor_prediction, sensor_history,                *)
(* route_traffic_analysis), the lifespan start-up/shut-down, and the       *)
(* document store the handlers read.                                       *)
(*                                                                         *)
(* Conventions                                                             *)
(*   - a document is a record; an optional field that the document lacks   *)
(*     (or holds null) is NULL; a pandas NaN is NaN;                        *)
(*   - a timestamp is the number of seconds since 2017-08-31 00:00:00 UTC  *)
(*     (a Thursday), so September 2017 is 86400 .. 2678399;                *)
(*   - speeds are fixed-point numbers with 2 decimals, held as integers in *)
(*     hundredths (4200 is 42.00);                                         *)
(*   - coordinates are integers in units of 1e-5 degree, which is the      *)
(*     precision of the polyline encoding.                                 *)
(***************************************************************************)
EXTENDS Integers, Sequences, FiniteSets, TLC

VARIABLES
    phase,           \* "init" (module loaded), "running" (after lifespan start-up), "stopped"
    model_resource,  \* model_resource["model"]: "unset", "loaded" or "none"
    db_resource,     \* db_resource["collection"]: "unset", "ok" or "cleared"
    store,           \* the traffic_readings collection: a sequence of documents, _id = position
    endpoint,        \* the endpoint of the last request answered ("none" when there is none)
    request,         \* its parameter (<<>> when there is none)
    status,          \* its HTTP status (0 when there is none)
    detail,          \* the condition it ended with
    body,            \* its response body (<<>> when there is none)
    locals,          \* values of the handler's local variables the properties speak about
    queried,         \* whether the handler issued a store query
    predicted        \* whether the handler invoked model.predict

vars == <<phase, model_resource, db_resource, store, endpoint, request, status, detail, body,
          locals, queried, predicted>>

----------------------------------------------------------------------------
(* Values *)

NULL == -1
NaN == -2

\* bounds of the model
MaxReadings == 6
MaxUntimed == 2

\* program constants
MinReadings == 3
HistoryFetchLimit == 5
DefaultSpeedLimit == 50
TargetOffset == 900
SecondsPerDay == 86400
EpochWeekday == 3

\* detid values: sensors are numbered
SensorIds == {1, 2}

Doc(id, detid, loc, ts, speed, flow, occupancy, speed_limit) ==
    [_id |-> id, detid |-> detid, location |-> loc, timestamp |-> ts, speed |-> speed,
     flow |-> flow, occupancy |-> occupancy, speed_limit |-> speed_limit]

Range(s) == {s[i] : i \in 1..Len(s)}

\* the documents of the collection
Docs == Range(store)

----------------------------------------------------------------------------
(* Sequences helpers *)

RECURSIVE Perms(_)
\* all the orders in which the documents of S may be returned
Perms(S) ==
    IF S = {} THEN {<<>>}
    ELSE UNION {{<<d>> \o p : p \in Perms(S \ {d})} : d \in S}

Take(s, n) == IF Len(s) <= n THEN s ELSE SubSeq(s, 1, n)

Max(S) == CHOOSE x \in S : \A y \in S : x >= y

RECURSIVE MongoSortDesc(_)
\* {"$sort": {"timestamp": -1}} / sort=[("timestamp", -1)]: every order of the
\* documents of S with non-increasing timestamps; a missing timestamp sorts lowest,
\* and the order of documents of equal timestamp is not specified
MongoSortDesc(S) ==
    IF S = {} THEN {<<>>}
    ELSE LET m == Max({d.timestamp : d \in S})
             top == {d \in S : d.timestamp = m}
         IN {p \o r : p \in Perms(top), r \in MongoSortDesc(S \ top)}

\* collection.find({"detid": detid_val})
FindByDetid(detid_val) == {d \in Docs : d.detid = detid_val}

----------------------------------------------------------------------------
(* prepare_features_for_sensor *)

feature_order == <<"hour_of_day", "day_of_week", "is_weekend", "speed_lag1", "speed_lag2",
                   "speed_lag3", "flow_lag1", "speed_limit", "occupancy", "flow">>

\* datetime.hour and datetime.weekday() (Monday = 0) of a timestamp
HourOf(ts) == (ts % SecondsPerDay) \div 3600
WeekdayOf(ts) == (EpochWeekday + (ts \div SecondsPerDay)) % 7

\* pd.DataFrame(sensor_data_list) has column f iff some document of the list has key f
HasColumn(list, f) == \E i \in 1..Len(list) : list[i][f] # NULL

\* the cell of row `row` in column f: NaN where the document lacks the key
Cell(row, f) == IF row[f] = NULL THEN NaN ELSE row[f]

\* row['speed'] if 'speed' in row else 0: `in` on a row (a Series) tests the column labels
LagValue(list, row, f) == IF HasColumn(list, f) THEN Cell(row, f) ELSE 0

\* row.get(f, default): the default is used only when the frame has no such column
GetValue(list, row, f, default) == IF HasColumn(list, f) THEN Cell(row, f) ELSE default

RECURSIVE SortValuesDesc(_)
\* df.sort_values('timestamp', ascending=False): rows of the list by decreasing
\* timestamp, rows of equal timestamp in list order, rows without timestamp (NaT) last
SortValuesDesc(list) ==
    IF Len(list) = 0 THEN <<>>
    ELSE LET i == CHOOSE k \in 1..Len(list) : \A j \in 1..Len(list) :
                      \/ list[k].timestamp > list[j].timestamp
                      \/ (list[k].timestamp = list[j].timestamp /\ k <= j)
             rest == [j \in 1..(Len(list) - 1) |-> IF j < i THEN list[j] ELSE list[j + 1]]
         IN <<list[i]>> \o SortValuesDesc(rest)

\* the dict features_for_prediction
FeatureDict(list, latest_readings, current_dt) ==
    [hour_of_day |-> HourOf(current_dt),
     day_of_week |-> WeekdayOf(current_dt),
     is_weekend  |-> IF WeekdayOf(current_dt) >= 5 THEN 1 ELSE 0,
     speed_lag1  |-> LagValue(list, latest_readings[1], "speed"),
     speed_lag2  |-> LagValue(list, latest_readings[2], "speed"),
     speed_lag3  |-> LagValue(list, latest_readings[3], "speed"),
     flow_lag1   |-> LagValue(list, latest_readings[1], "flow"),
     speed_limit |-> GetValue(list, latest_readings[1], "speed_limit", DefaultSpeedLimit),
     occupancy   |-> GetValue(list, latest_readings[1], "occupancy", 0),
     flow        |-> GetValue(list, latest_readings[1], "flow", 0)]

\* mutant of prepare_features_for_sensor: head(2) instead of head(3)
prepare_features_short_head(sensor_data_list, current_dt) ==
    IF Len(sensor_data_list) = 0 THEN [raised |-> FALSE, df |-> <<>>]
    ELSE IF ~HasColumn(sensor_data_list, "timestamp") THEN [raised |-> TRUE, df |-> <<>>]
    ELSE LET latest_readings == Take(SortValuesDesc(sensor_data_list), MinReadings - 1)
         IN IF Len(latest_readings) < MinReadings THEN [raised |-> FALSE, df |-> <<>>]
            ELSE LET f == FeatureDict(sensor_data_list, latest_readings, current_dt)
                 IN [raised |-> FALSE,
                     df |-> [i \in 1..Len(feature_order) |->
                                <<feature_order[i], f[feature_order[i]]>>]]

\* the returned frame: <<>> is the empty DataFrame, otherwise the single row as the
\* sequence of <<column, value>> in column order. raised: df_sensor['timestamp'] is a
\* KeyError when no document of the list has a timestamp.
prepare_features_for_sensor(sensor_data_list, current_dt) ==
    IF Len(sensor_data_list) = 0 THEN [raised |-> FALSE, df |-> <<>>]
    ELSE IF ~HasColumn(sensor_data_list, "timestamp") THEN [raised |-> TRUE, df |-> <<>>]
    ELSE LET latest_readings == Take(SortValuesDesc(sensor_data_list), MinReadings)
         IN IF Len(latest_readings) < MinReadings THEN [raised |-> FALSE, df |-> <<>>]
            ELSE LET f == FeatureDict(sensor_data_list, latest_readings, current_dt)
                 IN [raised |-> FALSE,
                     df |-> [i \in 1..Len(feature_order) |->
                                <<feature_order[i], f[feature_order[i]]>>]]

----------------------------------------------------------------------------
(* Responses *)

\* what a handler ends with: HTTP status, condition, response body, the handler's
\* locals, whether it queried the store and whether it invoked the predictor
Outcome(st, cond, b, l, q, pr) ==
    [status |-> st, detail |-> cond, body |-> b, locals |-> l, queried |-> q, predicted |-> pr]

NoLocals == [none |-> TRUE]

\* raise HTTPException(status_code=503, ...) before any query
Unavailable == Outcome(503, "Unavailable", <<>>, NoLocals, FALSE, FALSE)

\* db_resource.get("collection") is None
CollectionMissing == db_resource # "ok"

\* not model_resource.get("model")
ModelMissing == model_resource # "loaded"

\* the application serves requests, one at a time
Serving == phase = "running" /\ endpoint = "none"

Answer(name, input, o) ==
    /\ endpoint' = name
    /\ request' = input
    /\ status' = o.status
    /\ detail' = o.detail
    /\ body' = o.body
    /\ locals' = o.locals
    /\ queried' = o.queried
    /\ predicted' = o.predicted
    /\ UNCHANGED <<phase, model_resource, db_resource, store>>

NoAnswer ==
    /\ endpoint' = "none"
    /\ request' = <<>>
    /\ status' = 0
    /\ detail' = "none"
    /\ body' = <<>>
    /\ locals' = NoLocals
    /\ queried' = FALSE
    /\ predicted' = FALSE

----------------------------------------------------------------------------
(* GET /api/sensor_prediction/{detid_val} *)

\* what the opaque model.predict may return, already rounded to 2 decimals (hundredths)
PredictorOutputs == {0, 4275}

\* sorted([HistoricalSpeedPoint(...) for doc in list if speed and timestamp are not None],
\*        key=timestamp): sorted() is stable, and ascending
RECURSIVE SortedAscByTimestamp(_)
SortedAscByTimestamp(list) ==
    IF Len(list) = 0 THEN <<>>
    ELSE LET i == CHOOSE k \in 1..Len(list) : \A j \in 1..Len(list) :
                      \/ list[k].timestamp < list[j].timestamp
                      \/ (list[k].timestamp = list[j].timestamp /\ k <= j)
             rest == [j \in 1..(Len(list) - 1) |-> IF j < i THEN list[j] ELSE list[j + 1]]
         IN <<list[i]>> \o SortedAscByTimestamp(rest)

HistoricalDataForChart(historical_data_list) ==
    LET kept == SelectSeq(historical_data_list,
                          LAMBDA doc : doc.speed # NULL /\ doc.timestamp # NULL)
    IN SortedAscByTimestamp([i \in 1..Len(kept) |->
                                [timestamp |-> kept[i].timestamp, speed |-> kept[i].speed]])

\* find_one({"detid": detid_val}, sort=[("timestamp", -1)]): the first document of
\* some sorted order, <<>> standing for None
FindOneLatest(S) ==
    IF S = {} THEN {<<>>}
    ELSE {<<d>> : d \in {x \in S : x.timestamp = Max({y.timestamp : y \in S})}}

\* the body of the handler's success and failure from feature building on
PredictionFeatures(detid_val, prediction_target_time, historical_data_list) ==
    LET l0 == [historical_data_list |-> historical_data_list]
        r == prepare_features_for_sensor(historical_data_list, prediction_target_time)
        l1 == [historical_data_list |-> historical_data_list, features_df |-> r.df]
    IN IF r.raised
       THEN {Outcome(500, "Internal", <<>>, l0, TRUE, FALSE)}
       ELSE IF r.df = <<>>
       THEN {Outcome(500, "Could not prepare features", <<>>, l1, TRUE, FALSE)}
       ELSE {Outcome(200, "OK",
                     [detid |-> detid_val,
                      predicted_speed_for_next_interval |-> y,
                      prediction_target_time |-> prediction_target_time,
                      historical_speeds |-> HistoricalDataForChart(historical_data_list)],
                     l1, TRUE, TRUE) : y \in PredictorOutputs}

\* mutant of PredictionFrom: the length check is off by one (< 2 instead of < 3)
PredictionFromOffByOne(detid_val, prediction_target_time, historical_data_list) ==
    IF Len(historical_data_list) < MinReadings - 1
    THEN {Outcome(404, "DataInsufficient", <<>>,
                  [historical_data_list |-> historical_data_list], TRUE, FALSE)}
    ELSE PredictionFeatures(detid_val, prediction_target_time, historical_data_list)

\* the handler from the length check on, for one result of find().sort().limit(5)
PredictionFrom(detid_val, prediction_target_time, historical_data_list) ==
    IF Len(historical_data_list) < MinReadings
    THEN {Outcome(404, "DataInsufficient", <<>>,
                  [historical_data_list |-> historical_data_list], TRUE, FALSE)}
    ELSE PredictionFeatures(detid_val, prediction_target_time, historical_data_list)

\* the handler after its two availability checks, for one result of find_one
PredictionTry(detid_val, latest_sensor_doc) ==
    IF latest_sensor_doc = <<>> \/ latest_sensor_doc[1].timestamp = NULL
    THEN {Outcome(404, "NotFound", <<>>, NoLocals, TRUE, FALSE)}
    ELSE UNION {PredictionFrom(detid_val, latest_sensor_doc[1].timestamp + TargetOffset,
                               Take(many, HistoryFetchLimit)) :
                    many \in MongoSortDesc(FindByDetid(detid_val))}

\* mutant of get_sensor_prediction: the model is not checked
get_sensor_prediction_unchecked(detid_val) ==
    IF CollectionMissing THEN {Unavailable}
    ELSE UNION {PredictionTry(detid_val, one) :
                    one \in FindOneLatest(FindByDetid(detid_val))}

get_sensor_prediction(detid_val) ==
    IF CollectionMissing THEN {Unavailable}
    ELSE IF ModelMissing THEN {Unavailable}
    ELSE UNION {PredictionTry(detid_val, one) :
                    one \in FindOneLatest(FindByDetid(detid_val))}

ReqPrediction ==
    /\ Serving
    /\ \E detid_val \in SensorIds : \E o \in get_sensor_prediction(detid_val) :
           Answer("sensor_prediction", detid_val, o)

----------------------------------------------------------------------------
(* Aggregation stages shared by the pipelines *)

InViewLimit == 200

\* the documents of S of greatest timestamp among those with detid k
LatestOf(S, k) ==
    LET g == {d \in S : d.detid = k}
    IN {d \in g : d.timestamp = Max({x.timestamp : x \in g})}

RECURSIVE GroupChoices(_, _)
\* one document of LatestOf(S, k) for every k of keys, in every way
GroupChoices(S, keys) ==
    IF keys = {} THEN {{}}
    ELSE LET k == CHOOSE x \in keys : TRUE
         IN {{d} \cup r : d \in LatestOf(S, k), r \in GroupChoices(S, keys \ {k})}

\* {"$sort": {"timestamp": -1}}, {"$group": {"_id": "$detid", "latest_doc": {"$first":
\* "$$ROOT"}}}, {"$replaceRoot": ...}: every result the stages may give on the
\* documents S, one document per detid, that detid's first document in some order of
\* non-increasing timestamp (a sensor with one latest document leaves no choice)
GroupFirst(S) ==
    LET keys == {d.detid : d \in S}
        tied == {k \in keys : Cardinality(LatestOf(S, k)) > 1}
        sure == UNION {LatestOf(S, k) : k \in keys \ tied}
    IN {sure \cup r : r \in GroupChoices(S, tied)}

RECURSIVE KSubsets(_, _)
\* the subsets of S of k elements
KSubsets(S, k) ==
    IF k = 0 THEN {{}}
    ELSE UNION {{T \cup {x} : T \in KSubsets(S \ {x}, k - 1)} : x \in S}

\* {"$limit": n} after $group, whose output order is not specified: any n of them
Limit(S, n) ==
    IF Cardinality(S) <= n THEN {S}
    ELSE {S \ X : X \in KSubsets(S, Cardinality(S) - n)}

\* the documents of S as a list (the cursor's order is not specified; _id order is used)
InIdOrder(S) == SelectSeq(store, LAMBDA d : d \in S)

----------------------------------------------------------------------------
(* GET /api/sensors_in_view *)

\* {"location": {"$geoWithin": {"$box": [[min_lon, min_lat], [max_lon, max_lat]]}}}
InBox(loc, box) ==
    /\ box.min_lon <= loc[1] /\ loc[1] <= box.max_lon
    /\ box.min_lat <= loc[2] /\ loc[2] <= box.max_lat

\* SensorData(...) of a document
SensorData(doc) ==
    [detid |-> doc.detid, lat |-> doc.location[2], lon |-> doc.location[1],
     current_speed |-> doc.speed, current_flow |-> doc.flow,
     speed_limit |-> doc.speed_limit, last_updated |-> doc.timestamp]

\* mutant of SensorsInViewPipeline: the $group stage is left out
SensorsInViewNoGroup(box) ==
    Limit({d \in Docs : InBox(d.location, box)}, InViewLimit)

\* the aggregation pipeline of the handler
SensorsInViewPipeline(box) ==
    UNION {Limit(G, InViewLimit) : G \in GroupFirst({d \in Docs : InBox(d.location, box)})}

get_sensors_in_view(box) ==
    IF CollectionMissing THEN {Unavailable}
    ELSE {LET list == InIdOrder(R)
          IN Outcome(200, "OK", [i \in 1..Len(list) |-> SensorData(list[i])],
                     NoLocals, TRUE, FALSE) : R \in SensorsInViewPipeline(box)}

\* the bounding boxes requests are made with
Boxes ==
    {[min_lon |-> 0, min_lat |-> 0, max_lon |-> 10, max_lat |-> 10],
     [min_lon |-> 0, min_lat |-> 0, max_lon |-> 30, max_lat |-> 10]}

ReqSensorsInView ==
    /\ Serving
    /\ \E box \in Boxes : \E o \in get_sensors_in_view(box) :
           Answer("sensors_in_view", box, o)

----------------------------------------------------------------------------
(* GET /api/sensor_history/{detid_val} *)

HistoryLimit == 750

\* datetime(2017, 9, 1, 0, 0, 0) and datetime(2017, 9, 30, 23, 59, 59)
query_start_time == SecondsPerDay
query_end_time == 30 * SecondsPerDay + 86399

\* $year, $month, $dayOfMonth, $hour, $minute of a timestamp (31 August 2017 is day 0)
YearOf(ts) == 2017
MonthOf(ts) ==
    IF ts \div SecondsPerDay = 0 THEN 8 ELSE IF ts \div SecondsPerDay <= 30 THEN 9 ELSE 10
DayOfMonthOf(ts) ==
    IF ts \div SecondsPerDay = 0 THEN 31
    ELSE IF ts \div SecondsPerDay <= 30 THEN ts \div SecondsPerDay
    ELSE (ts \div SecondsPerDay) - 30
MinuteOf(ts) == (ts % 3600) \div 60
SecondOf(ts) == ts % 60

\* $dateFromParts
DateFromParts(year, month, day, hour, minute, second) ==
    (IF month = 8 THEN day - 31 ELSE IF month = 9 THEN day ELSE day + 30) * SecondsPerDay
        + hour * 3600 + minute * 60 + second

\* the $match stage; a document without timestamp is in no range
HistoryMatch(detid_val) ==
    {d \in Docs : /\ d.detid = detid_val
                  /\ d.timestamp # NULL
                  /\ d.timestamp >= query_start_time
                  /\ d.timestamp <= query_end_time
                  /\ d.speed # NULL}

\* the first $project stage followed by the _id of the $group stage
BucketKey(d) ==
    [year |-> YearOf(d.timestamp), month |-> MonthOf(d.timestamp),
     day |-> DayOfMonthOf(d.timestamp), hour |-> HourOf(d.timestamp),
     minute_interval |-> MinuteOf(d.timestamp) - (MinuteOf(d.timestamp) % 10)]

RECURSIVE SumSpeed(_)
SumSpeed(S) ==
    IF S = {} THEN 0
    ELSE LET d == CHOOSE x \in S : TRUE IN d.speed + SumSpeed(S \ {d})

\* {"$round": [sum / n, 2]} on hundredths: to the nearest, a half to the even one
RoundHalfEven(sum, n) ==
    LET q == sum \div n
        r == sum % n
    IN IF 2 * r < n THEN q
       ELSE IF 2 * r > n THEN q + 1
       ELSE IF q % 2 = 0 THEN q ELSE q + 1

\* mutant of BucketTimestamp: "timestamp": "$first_timestamp_in_interval"
FirstTimestampInInterval(key, members) ==
    CHOOSE t \in {d.timestamp : d \in members} : \A d \in members : t <= d.timestamp

\* the timestamp of the second $project stage
BucketTimestamp(key, members) ==
    DateFromParts(key.year, key.month, key.day, key.hour, key.minute_interval, 0)

\* the $group and second $project stages on the matched documents
HistoryBuckets(matched) ==
    LET keyed == {<<BucketKey(d), d>> : d \in matched}
    IN {LET members == {p[2] : p \in {q \in keyed : q[1] = k}}
        IN [timestamp |-> BucketTimestamp(k, members),
            speed |-> RoundHalfEven(SumSpeed(members), Cardinality(members))] :
           k \in {p[1] : p \in keyed}}

\* {"$sort": {"timestamp": ASCENDING}} on buckets, whose timestamps differ
SortBuckets(B) ==
    LET placed == {<<Cardinality({x \in B : x.timestamp < e.timestamp}) + 1, e>> : e \in B}
    IN [i \in 1..Cardinality(B) |-> (CHOOSE p \in placed : p[1] = i)[2]]

get_sensor_historical_data(detid_val) ==
    IF CollectionMissing THEN {Unavailable}
    ELSE {Outcome(200, "OK",
                  [detid |-> detid_val,
                   readings |-> Take(SortBuckets(HistoryBuckets(HistoryMatch(detid_val))),
                                     HistoryLimit)],
                  NoLocals, TRUE, FALSE)}

ReqHistory ==
    /\ Serving
    /\ \E detid_val \in SensorIds : \E o \in get_sensor_historical_data(detid_val) :
           Answer("sensor_history", detid_val, o)

----------------------------------------------------------------------------
(* POST /api/route_traffic_analysis *)

SampleTarget == 10
NearLimit == 5
MaxDistance == 75

\* polyline.decode: a string is the sequence of its character codes.
\* One value from position index on: 5-bit chunks, low chunk first, a chunk of
\* 0x20 or more is followed by another; the low bit of the result is the sign.
\* ok = FALSE is the IndexError of reading past the end of the string.
RECURSIVE Trans(_, _, _, _)
Trans(value, index, result, weight) ==
    IF index > Len(value) THEN [ok |-> FALSE, change |-> 0, index |-> index]
    ELSE LET byte == value[index] - 63
             res == result + (byte % 32) * weight
         IN IF byte >= 32 THEN Trans(value, index + 1, res, weight * 32)
            ELSE [ok |-> TRUE,
                  change |-> IF res % 2 = 1 THEN -(res \div 2) - 1 ELSE res \div 2,
                  index |-> index + 1]

\* the loop of decode: coordinates are <<lat, lng>> in units of 1e-5 degree
RECURSIVE DecodeFrom(_, _, _, _, _)
DecodeFrom(expression, index, lat, lng, coordinates) ==
    IF index > Len(expression) THEN [ok |-> TRUE, points |-> coordinates]
    ELSE LET a == Trans(expression, index, 0, 1)
         IN IF ~a.ok THEN [ok |-> FALSE, points |-> <<>>]
            ELSE LET b == Trans(expression, a.index, 0, 1)
                 IN IF ~b.ok THEN [ok |-> FALSE, points |-> <<>>]
                    ELSE DecodeFrom(expression, b.index, lat + a.change, lng + b.change,
                                    Append(coordinates, <<lat + a.change, lng + b.change>>))

Decode(expression) == DecodeFrom(expression, 1, 0, 0, <<>>)

\* range(0, n, step), as the increasing sequence of its members
RangeStep(n, step) == [k \in 1..((n + step - 1) \div step) |-> (k - 1) * step]

\* mutant of SampleIndices: the last point is never appended
SampleIndicesNoLast(n) ==
    IF n <= SampleTarget THEN [k \in 1..n |-> k - 1]
    ELSE RangeStep(n, n \div SampleTarget)

\* the indices (from 0) of the route's points taken as sample points, in the order taken
SampleIndices(n) ==
    IF n <= SampleTarget THEN [k \in 1..n |-> k - 1]
    ELSE LET step == n \div SampleTarget
             strided == RangeStep(n, step)
         IN IF (n - 1) % step # 0 THEN Append(strided, n - 1) ELSE strided

\* the square of the distance between two <<lon, lat>> places, in cm: at the latitude
\* of Manchester 1e-5 degree is 111 cm northwards and 66 cm eastwards
Distance2(p, q) ==
    (66 * (p[1] - q[1])) * (66 * (p[1] - q[1])) + (111 * (p[2] - q[2])) * (111 * (p[2] - q[2]))

\* the $geoNear stage: the documents within maxDistance metres of the point
GeoNear(point) ==
    {d \in Docs : Distance2(d.location, point) <= (100 * MaxDistance) * (100 * MaxDistance)}

\* the detids the pipeline of one sample point may add: `if detid:` skips a document
\* without detid
NearChoices(point) ==
    UNION {{{d.detid : d \in {e \in L : e.detid # NULL}} : L \in Limit(G, NearLimit)} :
              G \in GroupFirst(GeoNear(point))}

RECURSIVE NearbyFrom(_, _)
\* the values nearby_sensor_detids may have after the sample points from the i-th on
NearbyFrom(sample_points, i) ==
    IF i > Len(sample_points) THEN {{}}
    ELSE {a \cup r : a \in NearChoices(sample_points[i]),
                     r \in NearbyFrom(sample_points, i + 1)}

RECURSIVE GCD(_, _)
GCD(a, b) == IF b = 0 THEN a ELSE GCD(b, a % b)

\* fractions [num, den] with den > 0, in lowest terms
Frac(num, den) == LET g == GCD(num, den) IN [num |-> num \div g, den |-> den \div g]
FracAdd(x, y) == Frac(x.num * y.den + y.num * x.den, x.den * y.den)

\* current_speed is not None and speed_limit is not None and speed_limit > 0
HasRatio(doc) == doc.speed # NULL /\ doc.speed_limit # NULL /\ doc.speed_limit > 0

RECURSIVE SumRatios(_)
\* sum(all_congestion_ratios): speed / speed_limit of the documents, speed in hundredths
SumRatios(S) ==
    IF S = {} THEN Frac(0, 1)
    ELSE LET d == CHOOSE x \in S : TRUE
         IN FracAdd(Frac(d.speed, 100 * d.speed_limit), SumRatios(S \ {d}))

\* mutant of Condition: the thresholds are exclusive
ConditionExclusive(average_ratio) ==
    IF 5 * average_ratio.num > 4 * average_ratio.den THEN "Light"
    ELSE IF 2 * average_ratio.num > average_ratio.den THEN "Moderate"
    ELSE "Heavy"

\* average_ratio >= 0.8: Light, >= 0.5: Moderate, else Heavy
Condition(average_ratio) ==
    IF 5 * average_ratio.num >= 4 * average_ratio.den THEN "Light"
    ELSE IF 2 * average_ratio.num >= average_ratio.den THEN "Moderate"
    ELSE "Heavy"

\* mutant of RouteResult: sensors_with_speed_data is incremented for every document
\* fetched, outside the test for speed and speed limit
RouteResultCountsAll(l, final_sensor_docs) ==
    LET with == {d \in final_sensor_docs : HasRatio(d)}
        considered == Cardinality(l.nearby_sensor_detids)
    IN IF with = {}
       THEN Outcome(200, "OK",
                    [condition |-> "Unknown - No speed data from sensors near route",
                     average_congestion_ratio |-> NULL,
                     sensors_considered |-> considered,
                     sensors_with_data |-> Cardinality(final_sensor_docs)],
                    l, TRUE, FALSE)
       ELSE LET sum == SumRatios(with)
                average_ratio == Frac(sum.num, sum.den * Cardinality(with))
            IN Outcome(200, "OK",
                       [condition |-> Condition(average_ratio),
                        average_congestion_ratio |->
                            RoundHalfEven(1000 * average_ratio.num, average_ratio.den),
                        sensors_considered |-> considered,
                        sensors_with_data |-> Cardinality(final_sensor_docs)],
                       [l EXCEPT !.average_ratio = average_ratio], TRUE, FALSE)

\* the handler from the re-fetch of the latest documents on
RouteResult(l, final_sensor_docs) ==
    LET with == {d \in final_sensor_docs : HasRatio(d)}
        considered == Cardinality(l.nearby_sensor_detids)
    IN IF with = {}
       THEN Outcome(200, "OK",
                    [condition |-> "Unknown - No speed data from sensors near route",
                     average_congestion_ratio |-> NULL,
                     sensors_considered |-> considered, sensors_with_data |-> 0],
                    l, TRUE, FALSE)
       ELSE LET sum == SumRatios(with)
                average_ratio == Frac(sum.num, sum.den * Cardinality(with))
            IN Outcome(200, "OK",
                       [condition |-> Condition(average_ratio),
                        average_congestion_ratio |->
                            RoundHalfEven(1000 * average_ratio.num, average_ratio.den),
                        sensors_considered |-> considered,
                        sensors_with_data |-> Cardinality(with)],
                       [l EXCEPT !.average_ratio = average_ratio], TRUE, FALSE)

\* the handler from the sampling on, the decoded points being <<lat, lon>>
RouteAnalysis(decoded_route_points_lat_lon) ==
    LET n == Len(decoded_route_points_lat_lon)
        decoded_route_points_lon_lat ==
            [i \in 1..n |-> <<decoded_route_points_lat_lon[i][2],
                              decoded_route_points_lat_lon[i][1]>>]
        sample_indices == SampleIndices(n)
        sample_points == [k \in 1..Len(sample_indices) |->
                             decoded_route_points_lon_lat[sample_indices[k] + 1]]
    IN UNION {
         LET l == [points |-> n, sample_indices |-> sample_indices,
                   sample_points |-> sample_points, nearby_sensor_detids |-> nearby,
                   average_ratio |-> Frac(0, 1)]
         IN IF nearby = {}
            THEN {Outcome(200, "OK",
                          [condition |-> "Unknown - No sensors found near route",
                           average_congestion_ratio |-> NULL,
                           sensors_considered |-> 0, sensors_with_data |-> 0],
                          l, TRUE, FALSE)}
            ELSE {RouteResult(l, final) :
                      final \in GroupFirst({d \in Docs : d.detid \in nearby})} :
         nearby \in NearbyFrom(sample_points, 1)}

get_route_traffic_analysis(overview_polyline) ==
    IF CollectionMissing THEN {Unavailable}
    ELSE LET r == Decode(overview_polyline)
         IN IF ~r.ok THEN {Outcome(500, "Internal", <<>>, NoLocals, FALSE, FALSE)}
            ELSE IF r.points = <<>>
            THEN {Outcome(400, "InvalidInput", <<>>, NoLocals, FALSE, FALSE)}
            ELSE RouteAnalysis(r.points)

\* the request, its overview_polyline taken from the set polylines
ReqRouteAnalysis(polylines) ==
    /\ Serving
    /\ \E overview_polyline \in polylines :
           \E o \in get_route_traffic_analysis(overview_polyline) :
               Answer("route_traffic_analysis", overview_polyline, o)

----------------------------------------------------------------------------
(* lifespan *)

\* start-up: joblib.load succeeds or raises; MongoClient + ping succeed or raise
Startup ==
    /\ phase = "init"
    /\ phase' = "running"
    /\ model_resource' \in {"loaded", "none"}
    /\ db_resource' \in {"ok", "cleared"}
    /\ UNCHANGED <<store, endpoint, request, status, detail, body, locals, queried,
                   predicted>>

\* the response has been sent: the next request can be served
Return ==
    /\ phase = "running"
    /\ endpoint # "none"
    /\ NoAnswer
    /\ UNCHANGED <<phase, model_resource, db_resource, store>>

\* shut-down: the client is closed, no request is served any more
Shutdown ==
    /\ phase = "running"
    /\ phase' = "stopped"
    /\ NoAnswer
    /\ UNCHANGED <<model_resource, db_resource, store>>

----------------------------------------------------------------------------
(* the ingestion process that fills the collection (external to the API) *)

Ingest(detid, loc, ts, speed, flow, occupancy, speed_limit) ==
    /\ store' = Append(store, Doc(Len(store) + 1, detid, loc, ts, speed, flow,
                                  occupancy, speed_limit))
    /\ NoAnswer
    /\ UNCHANGED <<phase, model_resource, db_resource>>

InitCommon ==
    /\ phase = "init"
    /\ model_resource = "unset"
    /\ db_resource = "unset"
    /\ endpoint = "none"
    /\ request = <<>>
    /\ status = 0
    /\ detail = "none"
    /\ body = <<>>
    /\ locals = NoLocals
    /\ queried = FALSE
    /\ predicted = FALSE

----------------------------------------------------------------------------
(* Specification SpecPrediction: one sensor's readings arrive one after the other, *)
(* each with or without its optional fields, and predictions are requested        *)

FirstReadingTime == 165600
ReadingPeriod == 3000

\* the optional fields a reading carries: <<timestamp?, speed, flow, occupancy, speed_limit>>
ReadingShapes ==
    {<<TRUE, 4200, 7, 3, 30>>,            \* every field
     <<TRUE, NULL, NULL, 3, 30>>,       \* neither speed nor flow
     <<TRUE, NULL, NULL, NULL, NULL>>,  \* no optional field
     <<FALSE, 4200, 7, 3, 30>>}           \* no timestamp

IngestReading ==
    /\ Len(store) < MaxReadings
    /\ \E sh \in ReadingShapes :
          /\ sh[1] \/ Cardinality({d \in Docs : d.timestamp = NULL}) < MaxUntimed
          /\ Ingest(1, <<0, 0>>,
                    IF sh[1] THEN FirstReadingTime + Len(store) * ReadingPeriod ELSE NULL,
                    sh[2], sh[3], sh[4], sh[5])

InitPrediction == InitCommon /\ store = <<>>

NextPrediction == Startup \/ Shutdown \/ Return \/ IngestReading \/ ReqPrediction

SpecPrediction == InitPrediction /\ [][NextPrediction]_vars

----------------------------------------------------------------------------
(* Properties of the prediction endpoint *)

\* a prediction request was answered with store and predictor available
PredictionAnswered == endpoint = "sensor_prediction" /\ status # 503

\* the stored readings of the sensor the request names
StoredReadings == FindByDetid(request)

Timed(S) == {d \in S : d.timestamp # NULL}

\* the value of column f of the one-row frame df
FeatureValue(df, f) == df[CHOOSE i \in 1..Len(df) : df[i][1] = f][2]

\* C1 as stated: for every sensor with fewer than 3 stored readings, with store and
\* predictor available, a prediction request fails with DataInsufficient and the
\* predictor is never invoked.
C1_Original ==
    (PredictionAnswered /\ Cardinality(StoredReadings) < 3)
        => (detail = "DataInsufficient" /\ ~predicted)

\* C1 amended: with fewer than 3 stored readings the request fails with a 404 and the
\* predictor is never invoked; the condition is DataInsufficient when the sensor has 1
\* or 2 readings of which at least one carries a timestamp, and NotFound when it has
\* no reading, or none that carries a timestamp.
C1_FewReadingsFail ==
    (PredictionAnswered /\ Cardinality(StoredReadings) < 3)
        => /\ status = 404
           /\ ~predicted
           /\ detail = IF Timed(StoredReadings) # {} THEN "DataInsufficient" ELSE "NotFound"

C1_Witness ==
    /\ PredictionAnswered
    /\ Cardinality(StoredReadings) = 2
    /\ detail = "DataInsufficient"

\* C2: for every sensor with at least 3 stored readings, whatever optional fields they
\* carry, feature building neither fails nor returns an empty frame: whenever the
\* handler gets as far as building the features (the latest reading has a timestamp),
\* the frame has exactly the 10 columns of feature_order, in that order, and the
\* request never ends with "Could not prepare features".
C2_FeaturesBuilt ==
    (PredictionAnswered /\ Cardinality(StoredReadings) >= 3)
        => /\ detail \in {"OK", "NotFound"}
           /\ detail = "NotFound" => Timed(StoredReadings) = {}
           /\ detail = "OK" =>
                 /\ Len(locals.features_df) = 10
                 /\ [i \in 1..10 |-> locals.features_df[i][1]] =
                        <<"hour_of_day", "day_of_week", "is_weekend", "speed_lag1",
                          "speed_lag2", "speed_lag3", "flow_lag1", "speed_limit",
                          "occupancy", "flow">>

C2_Witness ==
    /\ PredictionAnswered
    /\ detail = "OK"
    /\ Cardinality(StoredReadings) > 5
    /\ \E d \in StoredReadings : d.speed = NULL /\ d.speed_limit = NULL
    /\ \E d \in StoredReadings : d.timestamp = NULL

\* C9 as stated: in feature building over at least 3 readings, whenever one of the 3
\* most recent readings lacks a speed value (or the most recent lacks flow), the
\* corresponding lag field is 0, whether or not the other fetched readings carry it.
C9_MissingLagIsZero ==
    (PredictionAnswered /\ detail = "OK")
        => LET list == locals.historical_data_list
               df == locals.features_df
           IN /\ list[1].speed = NULL => FeatureValue(df, "speed_lag1") = 0
              /\ list[2].speed = NULL => FeatureValue(df, "speed_lag2") = 0
              /\ list[3].speed = NULL => FeatureValue(df, "speed_lag3") = 0
              /\ list[1].flow = NULL => FeatureValue(df, "flow_lag1") = 0

----------------------------------------------------------------------------
(* Specification SpecView: readings of two sensors arrive in time order at places *)
(* inside and outside the boxes, or the collection holds one reading of each of   *)
(* InViewLimit + 1 sensors; the sensors in view are requested                     *)

MaxViewDocs == 3
BulkSensors == InViewLimit + 1

LastTimestamp == IF store = <<>> THEN 0 ELSE store[Len(store)].timestamp

\* a reading of sensor detid at loc, its speed telling the readings apart
IngestViewReading ==
    /\ Len(store) < MaxViewDocs
    /\ \E detid \in SensorIds, loc \in {<<5, 5>>, <<20, 5>>, <<40, 5>>},
          ts \in {100, 200} :
          /\ ts >= LastTimestamp
          /\ Ingest(detid, loc, ts, 4000 + Len(store), NULL, NULL, 30)

\* one reading of each of BulkSensors sensors, all inside the boxes
IngestViewBulk ==
    /\ store = <<>>
    /\ store' = [i \in 1..BulkSensors |-> Doc(i, i, <<5, 5>>, 100, 4000, NULL, NULL, 30)]
    /\ NoAnswer
    /\ UNCHANGED <<phase, model_resource, db_resource>>

InitView == InitCommon /\ store = <<>>

NextView ==
    Startup \/ Shutdown \/ Return \/ IngestViewReading \/ IngestViewBulk \/ ReqSensorsInView

SpecView == InitView /\ [][NextView]_vars

\* the readings of sensor detid inside the box of the request
InBoxReadings(detid) == {d \in Docs : d.detid = detid /\ InBox(d.location, request)}

\* C5: for every store content and every bounding box, the sensors-in-view response
\* has at most 200 entries, no two entries carry the same sensor identifier, and each
\* entry is built from a reading of greatest timestamp among that sensor's readings
\* located inside the box.
C5_InViewLatestDistinct ==
    (endpoint = "sensors_in_view" /\ status = 200)
        => /\ Len(body) <= 200
           /\ \A i, j \in 1..Len(body) : body[i].detid = body[j].detid => i = j
           /\ \A i \in 1..Len(body) :
                 \E d \in InBoxReadings(body[i].detid) :
                     /\ body[i] = SensorData(d)
                     /\ \A e \in InBoxReadings(body[i].detid) : e.timestamp <= d.timestamp

C5_Witness ==
    /\ endpoint = "sensors_in_view"
    /\ status = 200
    /\ Len(body) = 200
    /\ Len(store) > 200

\* a second witness of C5: a sensor whose latest reading lies outside the box is
\* reported with its latest reading inside the box
C5_WitnessLatestInside ==
    /\ endpoint = "sensors_in_view"
    /\ status = 200
    /\ \E i \in 1..Len(body) : \E d \in Docs :
           /\ d.detid = body[i].detid
           /\ d.timestamp > body[i].last_updated
           /\ ~InBox(d.location, request)

----------------------------------------------------------------------------
(* Specification SpecHistory: readings of a sensor arrive in time order around the *)
(* ends of September 2017 and within one 10-minute interval, or the collection     *)
(* holds one reading in each of HistoryLimit + 1 consecutive intervals; the        *)
(* history is requested                                                            *)

MaxHistoryDocs == 3
BulkIntervals == HistoryLimit + 1

\* 31 Aug 23:59:59, 1 Sep 00:00:00, 00:09:59, 00:10:00, 30 Sep 23:59:59, 1 Oct 00:00:00
HistoryTimes == {86399, 86400, 86999, 87000, 2678399, 2678400}

IngestHistoryReading ==
    /\ Len(store) < MaxHistoryDocs
    /\ \E ts \in HistoryTimes, speed \in {NULL, 3000, 3001} :
          /\ ts >= LastTimestamp
          /\ Ingest(1, <<0, 0>>, ts, speed, NULL, NULL, 30)

\* one reading 37 s into each of BulkIntervals consecutive intervals, latest first
IngestHistoryBulk ==
    /\ store = <<>>
    /\ store' = [i \in 1..BulkIntervals |->
                    Doc(i, 1, <<0, 0>>, query_start_time + (BulkIntervals - i) * 600 + 37,
                        3000 + i, NULL, NULL, 30)]
    /\ NoAnswer
    /\ UNCHANGED <<phase, model_resource, db_resource>>

InitHistory == InitCommon /\ store = <<>>

NextHistory ==
    Startup \/ Shutdown \/ Return \/ IngestHistoryReading \/ IngestHistoryBulk \/ ReqHistory

SpecHistory == InitHistory /\ [][NextHistory]_vars

\* the readings of the requested sensor in September 2017 with a speed
InRange ==
    {d \in Docs : /\ d.detid = request
                  /\ d.speed # NULL
                  /\ d.timestamp >= 86400 /\ d.timestamp <= 2678399}

\* the start of the 10-minute interval of a timestamp
IntervalStart(ts) == ts - (ts % 600)

\* the readings in range of the interval that starts at t
InInterval(t) == {d \in InRange : IntervalStart(d.timestamp) = t}

\* the non-empty intervals, and those of them with fewer than 750 earlier ones
NonEmptyIntervals == {IntervalStart(d.timestamp) : d \in InRange}
EarliestIntervals ==
    {t \in NonEmptyIntervals : Cardinality({u \in NonEmptyIntervals : u < t}) < 750}

HistoryAnswered == endpoint = "sensor_history" /\ status = 200

\* the part of C7 about which entries there are: exactly one entry per non-empty
\* interval among the 750 earliest, its timestamp the interval's start, in strictly
\* ascending order
HistoryEntriesRight ==
    LET rs == body.readings
    IN /\ {rs[i].timestamp : i \in 1..Len(rs)} = EarliestIntervals
       /\ Len(rs) = Cardinality(EarliestIntervals)
       /\ \A i \in 1..Len(rs) : MinuteOf(rs[i].timestamp) % 10 = 0
                                 /\ SecondOf(rs[i].timestamp) = 0
       /\ \A i \in 1..(Len(rs) - 1) : rs[i].timestamp < rs[i + 1].timestamp

\* C7 as stated: one entry per non-empty 10-minute bucket among the 750 earliest, its
\* timestamp the bucket's start, entries strictly ascending, empty buckets absent, and
\* each entry's speed is the mean of exactly the readings falling in that bucket.
C7_Original ==
    HistoryAnswered
        => /\ HistoryEntriesRight
           /\ \A i \in 1..Len(body.readings) :
                 LET in == InInterval(body.readings[i].timestamp)
                 IN body.readings[i].speed * Cardinality(in) = SumSpeed(in)

\* C7 amended: as stated, but each entry's speed is the mean of exactly the readings
\* falling in that bucket rounded to 2 decimals (a half to the even hundredth).
C7_HistoryBuckets ==
    HistoryAnswered
        => /\ HistoryEntriesRight
           /\ \A i \in 1..Len(body.readings) :
                 LET in == InInterval(body.readings[i].timestamp)
                     n == Cardinality(in)
                     v == body.readings[i].speed
                 IN /\ n > 0
                    /\ 2 * (v * n - SumSpeed(in)) <= n
                    /\ 2 * (SumSpeed(in) - v * n) <= n
                    /\ (2 * (v * n - SumSpeed(in)) = n \/ 2 * (SumSpeed(in) - v * n) = n)
                           => v % 2 = 0

C7_Witness ==
    /\ HistoryAnswered
    /\ Len(body.readings) = 750
    /\ Cardinality(NonEmptyIntervals) > 750

\* a second witness of C7: an interval of two readings whose mean needs rounding, and a
\* reading out of range
C7_WitnessRounded ==
    /\ HistoryAnswered
    /\ \E i \in 1..Len(body.readings) :
           LET in == InInterval(body.readings[i].timestamp)
           IN Cardinality(in) = 2 /\ SumSpeed(in) % 2 = 1
    /\ \E d \in Docs : d.timestamp > 2678399

----------------------------------------------------------------------------
(* Polyline strings: a route of n points, each reached from the one before (the  *)
(* first from <<0, 0>>) by the same step, and strings that are no encoding       *)

RECURSIVE Repeat(_, _)
Repeat(str, n) == IF n = 0 THEN <<>> ELSE str \o Repeat(str, n - 1)

\* "?S": latitude unchanged, longitude + 10; "_@A": latitude + 16, longitude + 1
Steps == {<<63, 83>>, <<95, 64, 65>>}

\* nothing, "?" (a latitude without longitude), "_" (a chunk announced and missing)
Tails == {<<>>, <<63>>, <<95>>}

Polylines(maxPoints) ==
    {Repeat(step, n) \o tail : step \in Steps, n \in 0..maxPoints, tail \in Tails}

----------------------------------------------------------------------------
(* Specification SpecSampling: routes of up to MaxRoutePoints points are analysed *)
(* over a collection of at most one reading per sensor next to the routes' start  *)

MaxRoutePoints == 25
MaxSamplingDocs == 2

IngestSamplingReading ==
    /\ Len(store) < MaxSamplingDocs
    /\ \E speed \in {NULL, 2400} :
          Ingest(Len(store) + 1, <<10, 0>>, 100, speed, NULL, NULL, 30)

ReqRouteSampling == ReqRouteAnalysis(Polylines(MaxRoutePoints))

InitSampling == InitCommon /\ store = <<>>

NextSampling == Startup \/ Shutdown \/ Return \/ IngestSamplingReading \/ ReqRouteSampling

SpecSampling == InitSampling /\ [][NextSampling]_vars

RouteAnswered == endpoint = "route_traffic_analysis"

\* C4: for every decoded route of n >= 1 points, the sample points contain the route's
\* last point and its first point, every sample is a point of the route taken in route
\* order, and no route index is sampled twice.
C4_SamplesCoverEnds ==
    (RouteAnswered /\ status = 200)
        => LET n == locals.points
               idx == locals.sample_indices
               route == Decode(request).points
           IN /\ n = Len(route) /\ n >= 1
              /\ Len(locals.sample_points) = Len(idx)
              /\ \E k \in 1..Len(idx) : idx[k] = n - 1
              /\ \E k \in 1..Len(idx) : idx[k] = 0
              /\ \A k \in 1..Len(idx) :
                    /\ idx[k] \in 0..(n - 1)
                    /\ locals.sample_points[k] =
                           <<route[idx[k] + 1][2], route[idx[k] + 1][1]>>
              /\ \A j, k \in 1..Len(idx) : j < k => idx[j] < idx[k]

\* a route of 20 points: the stride of 2 ends at index 18 and the last point is appended
C4_Witness ==
    /\ RouteAnswered
    /\ status = 200
    /\ locals.points = 20
    /\ locals.sample_indices[Len(locals.sample_indices)] = 19
    /\ locals.sample_indices[Len(locals.sample_indices) - 1] = 18

\* C10 as stated: for every decoded route, whatever its number of points, route analysis
\* selects at most 10 sample points.
C10_AtMostTenSamples ==
    (RouteAnswered /\ status = 200) => Len(locals.sample_points) <= 10

\* the most sample points a request is seen to take
C10_AtMostNineteenSamples ==
    (RouteAnswered /\ status = 200) => Len(locals.sample_points) <= 19

\* C6 as stated: a route analysis request whose polyline string is empty or garbage
\* (decoding yields no points, or the decoder fails on it) ends with InvalidInput (400),
\* never with the generic Internal error (500) and never with an analysis result.
C6_GarbageIsInvalidInput ==
    (RouteAnswered /\ status # 503 /\ (~Decode(request).ok \/ Decode(request).points = <<>>))
        => (status = 400 /\ detail = "InvalidInput")

----------------------------------------------------------------------------
(* Specification SpecRoute: the latest readings of two sensors, next to the route *)
(* or away from it, with and without speed and speed limit; short routes are      *)
(* analysed                                                                       *)

MaxRouteDocs == 2

\* <<speed, speed_limit>>: ratios 0.8, 0.5, just below 0.8, 0.2, and no ratio
RatioShapes ==
    {<<2400, 30>>, <<1500, 30>>, <<2399, 30>>, <<1000, 50>>,
     <<NULL, 30>>, <<2400, NULL>>, <<2400, 0>>}

IngestRouteReading ==
    /\ Len(store) < MaxRouteDocs
    /\ \E detid \in SensorIds, loc \in {<<10, 0>>, <<10, 100>>}, sh \in RatioShapes :
          Ingest(detid, loc, 100 * (Len(store) + 1), sh[1], NULL, NULL, sh[2])

\* "", "?", "?S" and "?S?"
RoutePolylines == {<<>>, <<63>>, <<63, 83>>, <<63, 83, 63>>}

ReqRouteShort == ReqRouteAnalysis(RoutePolylines)

InitRoute == InitCommon /\ store = <<>>

NextRoute == Startup \/ Shutdown \/ Return \/ IngestRouteReading \/ ReqRouteShort

SpecRoute == InitRoute /\ [][NextRoute]_vars

\* the latest readings of the sensors found near the route that give a ratio
RatioReadings ==
    {d \in Docs : /\ d.detid \in locals.nearby_sensor_detids
                  /\ \A e \in Docs : e.detid = d.detid => e.timestamp <= d.timestamp
                  /\ d.speed # NULL /\ d.speed_limit # NULL /\ d.speed_limit > 0}

C3_WitnessModerate ==
    /\ RouteAnswered
    /\ status = 200
    /\ body.sensors_with_data = 2
    /\ 10 * locals.average_ratio.num = 5 * locals.average_ratio.den
    /\ \E d \in RatioReadings : d.speed = 1000
    /\ body.condition = "Moderate"

\* C12 as stated: in every route analysis result that carries an average congestion
\* ratio, the condition label agrees with the returned ratio (the mean rounded to 3
\* decimals, here in thousandths): returned ratio >= 0.8 iff "Light", 0.5 <= returned
\* ratio < 0.8 iff "Moderate", returned ratio < 0.5 iff "Heavy".
C12_LabelAgreesWithReturned ==
    (RouteAnswered /\ status = 200 /\ body.average_congestion_ratio # NULL)
        => LET returned == body.average_congestion_ratio
           IN /\ returned >= 800 <=> body.condition = "Light"
              /\ (500 <= returned /\ returned < 800) <=> body.condition = "Moderate"
              /\ returned < 500 <=> body.condition = "Heavy"

\* a mean just below 0.8 is returned as 0.800 under the label "Moderate"
C12_RoundedOverThreshold ==
    /\ RouteAnswered
    /\ status = 200
    /\ body.average_congestion_ratio = 800
    /\ 5 * locals.average_ratio.num < 4 * locals.average_ratio.den
    /\ body.condition = "Moderate"

----------------------------------------------------------------------------
(* Specification Spec: the four endpoints over a small collection *)

MaxDocs == 3

IngestAny ==
    /\ Len(store) < MaxDocs
    /\ \E speed \in {NULL, 2400}, loc \in {<<10, 0>>, <<40, 5>>} :
          Ingest(1, loc, query_start_time + 300 * Len(store), speed, 7, 3, 30)

ReqRoute == ReqRouteAnalysis(RoutePolylines)

Init == InitCommon /\ store = <<>>

Next ==
    \/ Startup
    \/ Shutdown
    \/ Return
    \/ IngestAny
    \/ ReqSensorsInView
    \/ ReqPrediction
    \/ ReqHistory
    \/ ReqRoute

Spec == Init /\ [][Next]_vars

\* C8: after start-up and until shut-down, a request is answered 503 exactly when a
\* resource it needs was not initialized: every endpoint when the store connection
\* failed, the prediction endpoint also when the model failed to load; a 503 is given
\* without any store query and without invoking the predictor, and the three other
\* endpoints are not affected by a missing model.
C8_UnavailableIffMissing ==
    (endpoint # "none")
        => /\ phase = "running"
           /\ status = 503 <=>
                 \/ db_resource # "ok"
                 \/ (endpoint = "sensor_prediction" /\ model_resource # "loaded")
           /\ status = 503 => (~queried /\ ~predicted /\ detail = "Unavailable")
           /\ db_resource # "ok" => ~queried
           /\ model_resource # "loaded" => ~predicted

\* the model failed to load: the prediction endpoint answers 503 with the store at hand
C8_Witness ==
    /\ endpoint = "sensor_prediction"
    /\ status = 503
    /\ db_resource = "ok"
    /\ model_resource = "none"
    /\ Len(store) >= 1

\* the model failed to load and another endpoint answers from the store
C8_WitnessOther ==
    /\ endpoint = "sensor_history"
    /\ status = 200
    /\ model_resource = "none"
    /\ Len(body.readings) >= 1

----------------------------------------------------------------------------
(* Specification SpecNear: sensors stand in a row eastwards of the one-point route *)
(* "?S", 20 units (13.2 m) apart, the first on the route's point; each new reading *)
(* is of the sensor that reported last or of the next sensor of the row. With all  *)
(* the sensors reporting, one more than NearLimit are within MaxDistance.          *)

MaxNearSensors == NearLimit + 2
MaxNearDocs == NearLimit + 3

\* the place of the k-th sensor of the row: the first NearLimit + 1 are within 75 m
SensorPlace(k) == <<10 + 20 * (k - 1), 0>>

LastSensor == IF store = <<>> THEN 0 ELSE store[Len(store)].detid

IngestNearReading ==
    /\ Len(store) < MaxNearDocs
    /\ \E detid \in {LastSensor, LastSensor + 1} \cap (1..MaxNearSensors) :
          Ingest(detid, SensorPlace(detid), 100 * (Len(store) + 1), 2400, NULL, NULL, 30)

ReqRouteNear == ReqRouteAnalysis(RoutePolylines)

InitNear == InitCommon /\ store = <<>>

NextNear == Startup \/ Shutdown \/ Return \/ IngestNearReading \/ ReqRouteNear

SpecNear == InitNear /\ [][NextNear]_vars

\* the sensors with a reading within 75 m of the point
SensorsWithin(point) ==
    {d.detid : d \in {e \in Docs : Distance2(e.location, point) <= 7500 * 7500}}

C11_SomeFive ==
    (RouteAnswered /\ status = 200 /\ Len(locals.sample_points) = 1)
        => LET within == SensorsWithin(locals.sample_points[1])
               added == locals.nearby_sensor_detids
           IN /\ added \subseteq within
              /\ Cardinality(added) = IF Cardinality(within) > 5 THEN 5
                                      ELSE Cardinality(within)

\* six sensors within 75 m and the one on the route's point is left out
C11_ClosestLeftOut ==
    /\ RouteAnswered
    /\ status = 200
    /\ Len(locals.sample_points) = 1
    /\ Cardinality(SensorsWithin(locals.sample_points[1])) = 6
    /\ 1 \notin locals.nearby_sensor_detids
    /\ 6 \in locals.nearby_sensor_detids

----------------------------------------------------------------------------
(* Specification SpecCount: routes of one point (lon 10) and of two (lon 10 and   *)
(* lon 210, 132 m apart); readings of two sensors, or without detid, next to the  *)
(* first point, between the two (within 75 m of both), next to the second, or far  *)
(* from both; with and without speed                                               *)

MaxCountDocs == 2

\* "", "?S" and "?S?oK"
CountPolylines == {<<>>, <<63, 83>>, <<63, 83, 63, 111, 75>>}

CountPlaces == {<<10, 0>>, <<110, 0>>, <<210, 0>>, <<10, 200>>}

IngestCountReading ==
    /\ Len(store) < MaxCountDocs
    /\ \E detid \in SensorIds \cup {NULL}, loc \in CountPlaces, speed \in {2400, NULL} :
          Ingest(detid, loc, 100 * (Len(store) + 1), speed, NULL, NULL, 30)

ReqRouteCount == ReqRouteAnalysis(CountPolylines)

InitCount == InitCommon /\ store = <<>>

NextCount == Startup \/ Shutdown \/ Return \/ IngestCountReading \/ ReqRouteCount

SpecCount == InitCount /\ [][NextCount]_vars

\* the readings within 75 m of the k-th sample point
ReadingsNear(k) ==
    {d \in Docs : Distance2(d.location, locals.sample_points[k]) <= 7500 * 7500}

\* the distinct sensor identifiers found across all the sample points (no point has
\* more than 5 sensors within 75 m here)
IdentifiersFound ==
    {d.detid : d \in {e \in Docs : /\ e.detid # NULL
                                   /\ \E k \in 1..Len(locals.sample_points) :
                                         e \in ReadingsNear(k)}}

\* C13: every route analysis result satisfies 0 <= sensors_with_data <=
\* sensors_considered, where sensors_considered is the number of distinct sensor
\* identifiers found across all sample points (a sensor near several sample points
\* counts once); the condition is "Unknown - No sensors found near route" exactly when
\* sensors_considered = 0, "Unknown - No speed data from sensors near route" exactly when
\* sensors_considered > 0 and sensors_with_data = 0, and one of Light/Moderate/Heavy
\* exactly when sensors_with_data >= 1.
C13_CountsAndLabels ==
    (RouteAnswered /\ status = 200)
        => /\ body.sensors_considered = Cardinality(IdentifiersFound)
           /\ 0 <= body.sensors_with_data
           /\ body.sensors_with_data <= body.sensors_considered
           /\ body.condition = "Unknown - No sensors found near route"
                 <=> body.sensors_considered = 0
           /\ body.condition = "Unknown - No speed data from sensors near route"
                 <=> (body.sensors_considered > 0 /\ body.sensors_with_data = 0)
           /\ body.condition \in {"Light", "Moderate", "Heavy"}
                 <=> body.sensors_with_data >= 1

\* two sample points, a sensor with speed within 75 m of both and a sensor without
\* speed near one of them: two sensors considered, one with data
C13_Witness ==
    /\ RouteAnswered
    /\ status = 200
    /\ Len(locals.sample_points) = 2
    /\ \E d \in ReadingsNear(1) \cap ReadingsNear(2) : d.detid # NULL /\ d.speed # NULL
    /\ body.sensors_considered = 2
    /\ body.sensors_with_data = 1
    /\ body.condition = "Light"

\* a reading without detid is the only one near the route: no sensor is considered
C13_WitnessNoIdentifier ==
    /\ RouteAnswered
    /\ status = 200
    /\ ReadingsNear(1) # {}
    /\ body.sensors_considered = 0
    /\ body.condition = "Unknown - No sensors found near route"

\* a sensor is considered and has no speed
C13_WitnessNoSpeed ==
    /\ RouteAnswered
    /\ status = 200
    /\ body.sensors_considered = 1
    /\ body.sensors_with_data = 0
    /\ body.condition = "Unknown - No speed data from sensors near route"

====
